---- MODULE Spec2Model ----
(***************************************************************************)
(* Model of the MCP orchestration core of nablax-backend:                  *)
(*   - MCPClient (services/agent_service/mcp_client.py): the scoped        *)
(*     protocol session wrapper (__aenter__, __aexit__, the four protocol  *)
(*     operations);                                                        *)
(*   - the module-level registry mcp_servers and the orchestrating calls   *)
(*     of agents/mcp_manager.py (call_mcp_tool, get_available_mcp_tools,   *)
(*     get_mcp_resource).                                                  *)
(* Every request is one asyncio task.  An action is the code a task runs   *)
(* between two suspension points (await); the outcome of the awaited       *)
(* library call (stdio_client, ClientSession) is chosen by the environment.*)
(***************************************************************************)
EXTENDS Integers, Sequences, FiniteSets, TLC

\* Number of requests (asyncio tasks) in a run, numbered in order of arrival.
NumRequests == 2

Requests == 1 .. NumRequests

\* The servers of the loaded configuration, in load order.
ServerOrder == <<"mailer", "db">>

Servers == {ServerOrder[i] : i \in 1 .. Len(ServerOrder)}

\* Python's None for object references.
None == 0

\* Request r creates at most one stdio_client context and one ClientSession:
\* both are named after the request that created them.
SessionIds == Requests

TransportIds == Requests

\* Outcomes the environment can give to an awaited library call.
OK == "ok"

Timeout == "TimeoutError"

VARIABLES
    mcp_servers,  \* mcp_manager.mcp_servers: the dict, as its items in insertion order
    clients,      \* MCPClient object -> its fields session and _client_ctx
    sessions,     \* ClientSession object -> lifecycle state
    transports,   \* stdio_client context -> state of its subprocess/transport
    pc,           \* request -> the suspension point it is waiting at
    cl,           \* request -> the MCPClient object it looked up (local `client`)
    err,          \* request -> the exception in flight / reported ("none" if none)
    target,       \* request -> session its pending protocol request was issued on
    tore,         \* request -> what its teardown was invoked on
    raised,       \* request -> the exception that left the `async with` statement
    config_file,  \* the configuration source mcp.config as it is on disk
    servers,      \* MCPRegistry.servers: the dict, as its items in insertion order
    program,      \* the registry module this process runs: mcp_manager or mcp_registry
    last,         \* the last registry operation and what it gave its caller
    reader        \* the task of get_available_mcp_tools() enumerating all servers

vars == <<mcp_servers, clients, sessions, transports, pc, cl, err, target, tore, raised,
          config_file, servers, program, last, reader>>

\* What the request handlers of MCPClient never touch.
regVars == <<config_file, servers, program, last, reader>>

\* MCPClient.__init__: a new client has the launch parameters it was given, no
\* session and no transport context.
NewClient(command, args) ==
    [session |-> None, client_ctx |-> None, server_params |-> <<command, args>>]

(***************************************************************************)
(* Strings that are searched (request texts, keywords) are sequences of    *)
(* characters; other strings (names, commands) are only compared.          *)
(***************************************************************************)
Alphabet == {"d", "D", "b"}

\* Longest request text considered.
MaxTextLen == 2

Texts == UNION {[1 .. n -> Alphabet] : n \in 0 .. MaxTextLen}

\* str.lower(): every cased character is replaced by its lowercase one.
lower(s) == [i \in DOMAIN s |-> IF s[i] = "D" THEN "d" ELSE s[i]]

\* Python's `k in t` on strings: k occurs in t as a contiguous substring
\* (the empty string occurs in every string).
Contains(t, k) == \E i \in 0 .. Len(t) - Len(k) : SubSeq(t, i + 1, i + Len(k)) = k

\* The characters of a server name.
NameChars ==
    [s \in Servers |-> IF s = "db" THEN <<"d", "b">> ELSE <<"m", "a", "i", "l", "e", "r">>]

(***************************************************************************)
(* A dict is the sequence of its items in insertion order; every item      *)
(* carries its key in the field name.                                      *)
(***************************************************************************)
Has(d, k) == \E i \in DOMAIN d : d[i].name = k

Lookup(d, k) == d[CHOOSE i \in DOMAIN d : d[i].name = k]

\* d[k] = v: an existing key keeps its position, a new key goes last.
Put(d, k, v) ==
    IF Has(d, k) THEN [i \in DOMAIN d |-> IF d[i].name = k THEN v ELSE d[i]]
    ELSE Append(d, v)

\* dict.get(k, default) on one JSON object of the configuration.
Get(fields, k, default) == IF k \in DOMAIN fields THEN fields[k] ELSE default

(***************************************************************************)
(* The configuration source.  A file is absent, or is not JSON, or holds   *)
(* the object mcpServers: server name -> entry, in the order of the file.  *)
(* An entry is a JSON object with some of the keys command, args,          *)
(* description, keywords, or is not an object at all.                      *)
(***************************************************************************)
Keywords ==
    [s \in Servers |-> IF s = "db" THEN << <<"d", "b">>, <<"b">> >> ELSE << <<"D">> >>]

FullEntry(s) ==
    [command |-> "python", args |-> <<s>>, description |-> "drafts", keywords |-> Keywords[s]]

Entries(s) ==
    { [name |-> s, mapping |-> TRUE, fields |-> f] :
        f \in { FullEntry(s),
                [args |-> <<s>>],
                [command |-> "", args |-> <<s>>, description |-> "drafts"],
                [command |-> "python", description |-> "drafts"] } }
    \cup { [name |-> s, mapping |-> FALSE, fields |-> <<>>] }

\* The mcpServers objects: every sequence of entries for distinct server names.
EntryLists ==
    { <<>> }
    \cup UNION { {<<e>> : e \in Entries(s)} : s \in Servers }
    \cup UNION { { <<e, f>> : e \in Entries(s), f \in UNION {Entries(t) : t \in Servers \ {s}} }
                 : s \in Servers }

AbsentFile == [exists |-> FALSE, parses |-> FALSE, items |-> <<>>]

MalformedFile == [exists |-> TRUE, parses |-> FALSE, items |-> <<>>]

FileOf(items) == [exists |-> TRUE, parses |-> TRUE, items |-> items]

ConfigFiles == {AbsentFile, MalformedFile} \cup {FileOf(items) : items \in EntryLists}

\* The configuration the service is shipped with: every server, fully described.
DefaultConfig == FileOf([i \in DOMAIN ServerOrder |->
                     [name |-> ServerOrder[i], mapping |-> TRUE, fields |-> FullEntry(ServerOrder[i])]])

(***************************************************************************)
(* Loading.                                                                *)
(***************************************************************************)

\* MCPClient.__init__ without its check of the launch parameters.
ClientAcceptsAnything(command, args) == TRUE

\* MCPClient.__init__(server_command=command, server_args=args): with no
\* server_script_path it raises ValueError unless `server_command and server_args`.
ClientAccepts(command, args) == command # "" /\ args # <<>>

\* Identities of MCPClient objects; an object no longer referenced is collected
\* and its identity can be given to a later object.
ObjectIds == 1 .. (Len(ServerOrder) + NumRequests)

Referenced(reg, held) == {reg[i].client : i \in DOMAIN reg} \cup held

\* client = MCPClient(...) for the entry `name`: a new object.  The object the
\* registry holds for `name` is unreachable once the entry is overwritten, unless
\* a request holds it; the new object takes the least identity not in use by
\* then.
NewId(reg, held, name) ==
    LET used == {reg[i].client : i \in {j \in DOMAIN reg : reg[j].name # name}} \cup held
    IN CHOOSE c \in ObjectIds \ used : \A d \in ObjectIds \ used : c <= d

\* The value stored for one entry (the dict of mcp_manager, the MCPServerInfo of
\* MCPRegistry), with the defaults of the .get calls.
Descriptor(item, c) ==
    [name |-> item.name,
     client |-> c,
     command |-> Get(item.fields, "command", "python"),
     args |-> Get(item.fields, "args", <<>>),
     description |-> Get(item.fields, "description", "MCP Server: " \o item.name),
     keywords |-> Get(item.fields, "keywords", <<>>)]

\* The loop over servers_config.items(): it stops at the first entry that raises
\* (.get on a non-object: AttributeError; MCPClient.__init__: ValueError); what
\* earlier entries stored stays.  held: client objects referenced from elsewhere.
RECURSIVE LoadItems(_, _, _, _)
LoadItems(items, reg, heap, held) ==
    IF items = <<>> THEN [reg |-> reg, heap |-> heap, error |-> "none"]
    ELSE LET item == Head(items) IN
         IF ~item.mapping THEN [reg |-> reg, heap |-> heap, error |-> "AttributeError"]
         ELSE LET d == Descriptor(item, NewId(reg, held, item.name)) IN
              IF ~ClientAccepts(d.command, d.args)
              THEN [reg |-> reg, heap |-> heap, error |-> "ValueError"]
              ELSE LoadItems(Tail(items), Put(reg, item.name, d),
                             (d.client :> NewClient(d.command, d.args)) @@ heap, held)

\* The body of load_mcp_config / MCPRegistry.load_config on registry reg: an
\* absent file is logged and the function returns; json.load and the loop run
\* inside `try`, and `except Exception` logs whatever they raise.
LoadFile(file, reg, heap, held) ==
    IF ~file.exists THEN [reg |-> reg, heap |-> heap, error |-> "absent"]
    ELSE IF ~file.parses THEN [reg |-> reg, heap |-> heap, error |-> "JSONDecodeError"]
    ELSE LoadItems(file.items, reg, heap, held)

\* Objects that nothing references any more are gone.
Collect(heap, live) == [c \in DOMAIN heap \cap live |-> heap[c]]

\* load_mcp_config at import: mcp_servers = {} and one load of the shipped file.
LoadedServers == LoadFile(DefaultConfig, <<>>, <<>>, {}).reg

ClientIds == {LoadedServers[i].client : i \in DOMAIN LoadedServers}

NoTarget == [on |-> None, kind |-> "none"]

NoTeardown == [via |-> "none", sess |-> None, ctx |-> None, failed |-> FALSE]

\* No registry operation has run / what an operation that returns nothing leaves.
NoOp == [op |-> "none", text |-> <<>>, value |-> <<>>, raised |-> FALSE, success |-> "none"]

\* get_available_mcp_tools is not running: no iterator, nothing read, no tools.
ReaderIdle ==
    [pc |-> "idle", at |-> None, size |-> None, first |-> <<>>, seen |-> <<>>,
     outcomes |-> <<>>, value |-> <<>>, error |-> "none"]

\* The state the request handlers start from, whatever the registry holds.
InitRequests ==
    /\ sessions = [s \in SessionIds |-> "none"]
    /\ transports = [t \in TransportIds |-> "none"]
    /\ pc = [r \in Requests |-> "idle"]
    /\ cl = [r \in Requests |-> None]
    /\ err = [r \in Requests |-> "none"]
    /\ target = [r \in Requests |-> NoTarget]
    /\ tore = [r \in Requests |-> NoTeardown]
    /\ raised = [r \in Requests |-> "none"]

Init ==
    /\ config_file = DefaultConfig
    /\ mcp_servers = LoadedServers
    /\ clients = LoadFile(DefaultConfig, <<>>, <<>>, {}).heap
    /\ servers = <<>>
    /\ program = "mcp_manager"
    /\ last = NoOp
    /\ reader = ReaderIdle
    /\ InitRequests

(***************************************************************************)
(* Selection by keyword.  A returned Optional[...] is <<>> for None and     *)
(* <<name>> for the server (its name, or its MCPServerInfo) otherwise.      *)
(***************************************************************************)

\* `keyword.lower() in text_lower` for some keyword of the descriptor.
KeywordMatches(d, text) ==
    \E j \in DOMAIN d.keywords : Contains(lower(text), lower(d.keywords[j]))

\* A loop that returns at the last item that satisfies its test.
LastOf(S) == CHOOSE i \in S : \A j \in S : j <= i

\* A `for` loop over the items that returns at the first one satisfying its test.
FirstOf(S) == CHOOSE i \in S : \A j \in S : i <= j

\* find_server_by_keywords without its last line: no match, no server.
find_without_fallback(reg, text) ==
    LET matching == {i \in DOMAIN reg : \E j \in DOMAIN reg[i].keywords :
                        Contains(lower(text), lower(reg[i].keywords[j]))}
    IN IF matching # {} THEN <<reg[CHOOSE i \in matching : \A j \in matching : i <= j].name>>
       ELSE <<>>

\* mcp_manager.find_server_by_keywords (and the copy in agent_service/main.py).
find_server_by_keywords(reg, text) ==
    LET matching == {i \in DOMAIN reg : KeywordMatches(reg[i], text)} IN
    IF matching # {} THEN <<reg[FirstOf(matching)].name>>
    ELSE IF reg # <<>> THEN <<reg[1].name>> ELSE <<>>

\* MCPRegistry.find_server_by_keywords: after the keywords it tries the server
\* names, and returns None when neither occurs in the text.
registry_find_server_by_keywords(reg, text) ==
    LET matching == {i \in DOMAIN reg : KeywordMatches(reg[i], text)}
        named == {i \in DOMAIN reg : Contains(lower(text), lower(NameChars[reg[i].name]))}
    IN IF matching # {} THEN <<reg[FirstOf(matching)].name>>
       ELSE IF named # {} THEN <<reg[FirstOf(named)].name>> ELSE <<>>

\* The guard of list_tools / call_tool / list_resources / read_resource:
\* `if not self.session: raise RuntimeError(...)`.
OpAccepted(client) == client.session # None

\* ClientSession.__aexit__ on session s: the session is closed whatever it was.
CloseSession(ss, s) == [ss EXCEPT ![s] = "closed"]

\* stdio_client(...).__aexit__ on context t: a running subprocess is terminated;
\* a context that never started one, or already stopped it, has nothing to stop
\* (its generator is finished: the call returns without doing or raising anything).
CloseTransport(ts, t) == IF ts[t] = "open" THEN [ts EXCEPT ![t] = "closed"] ELSE ts

\* __aexit__ without its `except Exception`: a failing teardown step escapes.
ExitOutcomeUnguarded(out) == IF out = OK THEN "returned" ELSE "raised"

\* What MCPClient.__aexit__ does with the outcome `out` of a teardown step:
\* `except Exception as e: logger.error(...)` - it always returns normally.
ExitOutcome(out) == "returned"

\* What leaves the `async with` block: __aexit__ returns None (falsy), so an
\* exception of the body is re-raised; an exception of __aexit__ would replace it.
ScopeResult(bodyErr, exitOutcome) ==
    IF exitOutcome = "raised" THEN "CloseError" ELSE bodyErr

\* The except clause of MCPClient.__aenter__ when a cleanup step gave `out`:
\* nothing guards the cleanup awaits, so a failing one replaces the open error.
HandlerResult(openErr, out) == IF out = OK THEN openErr ELSE "CloseError"

\* The task's return: call_mcp_tool returns the success mapping from inside the
\* scope, or its `except Exception` turns the exception into a failure mapping;
\* CancelledError is no Exception and ends the task as cancelled.
ResultOf(exc) ==
    CASE exc = "none" -> "success"
      [] exc = "CancelledError" -> "cancelled"
      [] OTHER -> "failure"

\* What the task of request r returned ("none" while it runs); a request that
\* found no server (it never looked up a client) returned the failure mapping,
\* unless its entry point raised instead.
result(r) ==
    IF pc[r] # "done" THEN "none"
    ELSE IF cl[r] = None THEN (IF raised[r] = "none" THEN "failure" ELSE "raised")
    ELSE ResultOf(raised[r])

\* The exception (or none) leaves the scope and the entry point returns.  Of the
\* teardown only how it was entered and whether a step of it raised is kept.
Finish(r, exc, failed) ==
    /\ raised' = [raised EXCEPT ![r] = exc]
    /\ pc' = [pc EXCEPT ![r] = "done"]
    /\ tore' = [tore EXCEPT ![r] = [NoTeardown EXCEPT !.via = tore[r].via, !.failed = failed]]

\* The server a request goes to: the server_name argument when the caller gives
\* one (any name), else what find_server_by_keywords gives for the text of the
\* request (any text).
Selections(reg) ==
    {<<s>> : s \in Servers} \cup {find_server_by_keywords(reg, text) : text \in Texts}

\* Request r arrives: requests are numbered in the order they arrive.
Arrives(r) ==
    /\ pc[r] = "idle"
    /\ \A q \in Requests : q < r => pc[q] # "idle"

\* `client = server_info['client']` and `async with client` up to the first
\* await of MCPClient.__aenter__: the shared client of the server is looked up
\* and its _client_ctx is overwritten with a new stdio_client context.
Enter(r, server_name) ==
    /\ cl' = [cl EXCEPT ![r] = Lookup(mcp_servers, server_name).client]
    /\ clients' = [clients EXCEPT ![Lookup(mcp_servers, server_name).client].client_ctx = r]
    /\ pc' = [pc EXCEPT ![r] = "spawning"]

\* mcp_manager.call_mcp_tool up to `async with client`: with no server, or one
\* that is not registered, the failure mapping "No suitable MCP server found"
\* is returned at once.  Otherwise the scoped session on the server's client
\* is entered.
Start(r) ==
    /\ Arrives(r)
    /\ \E name \in Selections(mcp_servers) :
           IF name = <<>> \/ ~Has(mcp_servers, name[1])
           THEN /\ pc' = [pc EXCEPT ![r] = "done"]
                /\ UNCHANGED <<cl, clients>>
           ELSE Enter(r, name[1])
    /\ UNCHANGED <<mcp_servers, sessions, transports, err, target, tore, raised, regVars>>

\* A teardown (of __aenter__'s except clause or of __aexit__) up to its first
\* await: `if self.session: await self.session.__aexit__(...)`, else
\* `if self._client_ctx: await self._client_ctx.__aexit__(...)`.  It acts on
\* whatever the client's fields hold now.
TeardownStart(r, via, client) ==
    IF client.session # None
    THEN /\ tore' = [tore EXCEPT ![r] = [via |-> via, sess |-> client.session,
                                          ctx |-> None, failed |-> FALSE]]
         /\ pc' = [pc EXCEPT ![r] = IF via = "handler" THEN "h_sess" ELSE "x_sess"]
    ELSE /\ tore' = [tore EXCEPT ![r] = [via |-> via, sess |-> None,
                                          ctx |-> client.client_ctx, failed |-> FALSE]]
         /\ pc' = [pc EXCEPT ![r] = IF via = "handler" THEN "h_ctx" ELSE "x_ctx"]

\* `except Exception as e:` of __aenter__, up to its first await.
HandlerStart(r, e) ==
    /\ err' = [err EXCEPT ![r] = e]
    /\ target' = [target EXCEPT ![r] = NoTarget]
    /\ TeardownStart(r, "handler", clients[cl[r]])

\* The body ended with e ("none": normally); MCPClient.__aexit__ up to its first await.
ExitStart(r, e) ==
    /\ err' = [err EXCEPT ![r] = e]
    /\ target' = [target EXCEPT ![r] = NoTarget]
    /\ TeardownStart(r, "exit", clients[cl[r]])

\* `await asyncio.wait_for(self._client_ctx.__aenter__(), timeout)` returns or raises;
\* on success self.session = ClientSession(read, write) and its __aenter__ is awaited.
SpawnDone(r) ==
    /\ pc[r] = "spawning"
    /\ \E out \in {OK, Timeout, "SpawnError"} :
        IF out = OK
        THEN /\ transports' = [transports EXCEPT ![r] = "open"]
             /\ sessions' = [sessions EXCEPT ![r] = "created"]
             /\ clients' = [clients EXCEPT ![cl[r]].session = r]
             /\ pc' = [pc EXCEPT ![r] = "sess_entering"]
             /\ UNCHANGED <<err, tore, target>>
        ELSE /\ HandlerStart(r, out)
             /\ UNCHANGED <<transports, sessions, clients>>
    /\ UNCHANGED <<mcp_servers, cl, raised, regVars>>

\* `await self.session.__aenter__()` returns or raises; on success
\* self.session.initialize() is issued on whatever self.session holds now.
SessEnterDone(r) ==
    /\ pc[r] = "sess_entering"
    /\ \E out \in {OK, "ProtocolError"} :
        /\ out = OK => sessions[r] = "created"
        /\ IF out = OK
           THEN /\ sessions' = [sessions EXCEPT ![r] = "started"]
                /\ target' = [target EXCEPT ![r] =
                       [on |-> clients[cl[r]].session, kind |-> "initialize"]]
                /\ pc' = [pc EXCEPT ![r] = "initializing"]
                /\ UNCHANGED <<err, tore>>
           ELSE /\ HandlerStart(r, out)
                /\ UNCHANGED sessions
    /\ UNCHANGED <<mcp_servers, clients, transports, cl, raised, regVars>>

\* `await asyncio.wait_for(self.session.initialize(), timeout)` returns or raises;
\* on success __aenter__ returns self and the body (call_tool) runs up to its await:
\* the guard, then self.session.call_tool(...) on whatever self.session holds now.
InitDone(r) ==
    /\ pc[r] = "initializing"
    /\ \E out \in {OK, Timeout, "ProtocolError"} :
        /\ out = OK => sessions[target[r].on] \in {"started", "ready"}
        /\ IF out = OK
           THEN /\ sessions' = [sessions EXCEPT ![target[r].on] = "ready"]
                /\ IF OpAccepted(clients[cl[r]])
                   THEN /\ target' = [target EXCEPT ![r] =
                               [on |-> clients[cl[r]].session, kind |-> "call_tool"]]
                        /\ pc' = [pc EXCEPT ![r] = "calling"]
                        /\ UNCHANGED <<err, tore>>
                   ELSE ExitStart(r, "RuntimeError")
           ELSE /\ HandlerStart(r, out)
                /\ UNCHANGED sessions
    /\ UNCHANGED <<mcp_servers, clients, transports, cl, raised, regVars>>

\* `await asyncio.wait_for(self.session.call_tool(...), timeout)` returns or
\* raises; either way the `async with` statement calls __aexit__.
CallDone(r) ==
    /\ pc[r] = "calling"
    /\ \E out \in {OK, Timeout, "ProtocolError"} :
        /\ out = OK => sessions[target[r].on] = "ready"
        /\ ExitStart(r, IF out = OK THEN "none" ELSE out)
    /\ UNCHANGED <<mcp_servers, clients, sessions, transports, cl, raised, regVars>>

\* __aenter__'s handler, `await self.session.__aexit__(...)` returns or raises:
\* if it raises, the transport cleanup and the bare `raise` are never reached.
HandlerSessionDone(r) ==
    /\ pc[r] = "h_sess"
    /\ \E out \in {OK, "CloseError"} :
        /\ sessions' = CloseSession(sessions, tore[r].sess)
        /\ IF out = OK /\ clients[cl[r]].client_ctx # None
           THEN /\ tore' = [tore EXCEPT ![r].ctx = clients[cl[r]].client_ctx]
                /\ pc' = [pc EXCEPT ![r] = "h_ctx"]
                /\ UNCHANGED raised
           ELSE Finish(r, HandlerResult(err[r], out), out # OK)
    /\ UNCHANGED <<mcp_servers, clients, transports, cl, err, target, regVars>>

\* __aenter__'s handler, `await self._client_ctx.__aexit__(...)` returns or raises,
\* then `raise`; the entry point's `except Exception` returns the failure.
HandlerCtxDone(r) ==
    /\ pc[r] = "h_ctx"
    /\ \E out \in {OK, "CloseError"} :
        /\ out # OK => transports[tore[r].ctx] = "open"
        /\ transports' = CloseTransport(transports, tore[r].ctx)
        /\ Finish(r, HandlerResult(err[r], out), out # OK)
    /\ UNCHANGED <<mcp_servers, clients, sessions, cl, err, target, regVars>>

\* __aexit__, `await self.session.__aexit__(...)` returns or raises: if it raises,
\* control jumps to `except Exception`, past the transport's __aexit__.
ExitSessionDone(r) ==
    /\ pc[r] = "x_sess"
    /\ \E out \in {OK, "CloseError"} :
        /\ sessions' = CloseSession(sessions, tore[r].sess)
        /\ IF out = OK /\ clients[cl[r]].client_ctx # None
           THEN /\ tore' = [tore EXCEPT ![r].ctx = clients[cl[r]].client_ctx]
                /\ pc' = [pc EXCEPT ![r] = "x_ctx"]
                /\ UNCHANGED raised
           ELSE Finish(r, ScopeResult(err[r], ExitOutcome(out)), out # OK)
    /\ UNCHANGED <<mcp_servers, clients, transports, cl, err, target, regVars>>

\* __aexit__, `await self._client_ctx.__aexit__(...)` returns or raises; the
\* scope ends and the entry point returns.
ExitCtxDone(r) ==
    /\ pc[r] = "x_ctx"
    /\ \E out \in {OK, "CloseError"} :
        /\ out # OK => transports[tore[r].ctx] = "open"
        /\ transports' = CloseTransport(transports, tore[r].ctx)
        /\ Finish(r, ScopeResult(err[r], ExitOutcome(out)), out # OK)
    /\ UNCHANGED <<mcp_servers, clients, sessions, cl, err, target, regVars>>

Next ==
    \E r \in Requests :
        \/ Start(r)
        \/ SpawnDone(r)
        \/ SessEnterDone(r)
        \/ InitDone(r)
        \/ CallDone(r)
        \/ HandlerSessionDone(r)
        \/ HandlerCtxDone(r)
        \/ ExitSessionDone(r)
        \/ ExitCtxDone(r)

Spec == Init /\ [][Next]_vars

\* The request's task is cancelled while it waits at a suspension point of the
\* open or of the body.  CancelledError is a BaseException: `except Exception`
\* in __aenter__ does not run for it; inside the body the `async with`
\* statement still calls __aexit__.
Cancel(r) ==
    /\ pc[r] \in {"spawning", "sess_entering", "initializing", "calling"}
    /\ IF pc[r] = "calling"
       THEN /\ ExitStart(r, "CancelledError")
            /\ UNCHANGED raised
       ELSE /\ err' = [err EXCEPT ![r] = "CancelledError"]
            /\ target' = [target EXCEPT ![r] = NoTarget]
            /\ Finish(r, "CancelledError", FALSE)
    /\ UNCHANGED <<mcp_servers, clients, sessions, transports, cl, regVars>>

NextCancel == Next \/ \E r \in Requests : Cancel(r)

SpecCancel == Init /\ [][NextCancel]_vars

(***************************************************************************)
(* The registries on their own: mcp_manager's module-level mcp_servers and *)
(* the servers of the MCPRegistry object, each loaded from the             *)
(* configuration source when its module is imported / the object is built. *)
(***************************************************************************)

\* What a request that lost its local variable `client` would hold.
HeldByNobody == {}

\* Client objects that running tasks hold in their local variable `client`.
HeldByRequests ==
    {cl[r] : r \in {q \in Requests : pc[q] \notin {"idle", "done"}}}
    \cup (IF reader.pc = "discovering" THEN {reader.seen[reader.at].client} ELSE {})

\* Neither registry module imports the other, and no module of the service
\* imports both: a process runs one of them.
Programs == {"mcp_manager", "mcp_registry"}

\* The registry of the process right after start-up over one of the given
\* files: load_mcp_config() at the import of mcp_manager, or MCPRegistry()
\* built by get_mcp_registry().
InitRegistries(files) ==
    \E f \in files, p \in Programs :
        LET res == LoadFile(f, <<>>, <<>>, {})
        IN /\ config_file = f
           /\ program = p
           /\ mcp_servers = IF p = "mcp_manager" THEN res.reg ELSE <<>>
           /\ servers = IF p = "mcp_registry" THEN res.reg ELSE <<>>
           /\ clients = res.heap
           /\ last = NoOp
           /\ reader = ReaderIdle
           /\ InitRequests

\* What a registry operation leaves alone.
requestVars == <<sessions, transports, pc, cl, err, target, tore, raised, program>>

\* Keyword lists a configuration can give a server ("" is a keyword too).
KeywordLists ==
    { <<>>, << <<"D">> >>, << <<"b">> >>, << <<"d", "b">>, <<"b">> >>, << <<>> >> }

FindEntries(s) ==
    { [name |-> s, mapping |-> TRUE, fields |-> [FullEntry(s) EXCEPT !.keywords = k]] :
        k \in KeywordLists }

FindFiles ==
    { FileOf(<<>>) }
    \cup UNION { {FileOf(<<e>>) : e \in FindEntries(s)} : s \in Servers }
    \cup UNION { { FileOf(<<e, f>>) : e \in FindEntries(s),
                                      f \in UNION {FindEntries(t) : t \in Servers \ {s}} }
                 : s \in Servers }

InitFind == InitRegistries(FindFiles)

\* A caller asks mcp_manager.find_server_by_keywords(text).
Find ==
    /\ program = "mcp_manager"
    /\ \E text \in Texts :
        last' = [NoOp EXCEPT !.op = "find", !.text = text,
                             !.value = find_server_by_keywords(mcp_servers, text)]
    /\ UNCHANGED <<mcp_servers, servers, clients, config_file, reader, requestVars>>

\* A caller asks MCPRegistry.find_server_by_keywords(text).
RegistryFind ==
    /\ program = "mcp_registry"
    /\ \E text \in Texts :
        last' = [NoOp EXCEPT !.op = "registry_find", !.text = text,
                             !.value = registry_find_server_by_keywords(servers, text)]
    /\ UNCHANGED <<mcp_servers, servers, clients, config_file, reader, requestVars>>

NextFind == Find \/ RegistryFind

SpecFind == InitFind /\ [][NextFind]_vars

\* The operator (or a deployment) rewrites, removes or corrupts mcp.config.
EditConfig ==
    /\ \E f \in ConfigFiles \ {config_file} : config_file' = f
    /\ last' = [NoOp EXCEPT !.op = "edit"]
    /\ UNCHANGED <<mcp_servers, servers, clients, reader, requestVars>>

\* load_mcp_config() runs.  It has no await, so it is one step; it stores into
\* the dict that is already there, and always returns None.
load_mcp_config ==
    LET held == Referenced(servers, HeldByRequests)
        res == LoadFile(config_file, mcp_servers, clients, held)
    IN /\ mcp_servers' = res.reg
       /\ clients' = Collect(res.heap, Referenced(res.reg, held))

\* A caller other than reload runs load_mcp_config() again (src/main.py:50 after
\* the import of mcp_manager, get_mcp_client on an empty registry).
LoadConfig ==
    /\ program = "mcp_manager"
    /\ load_mcp_config
    /\ last' = [NoOp EXCEPT !.op = "load"]
    /\ UNCHANGED <<config_file, servers, reader, requestVars>>

\* reload_mcp_config(): load_mcp_config() and the mapping with success True; the
\* `except Exception` branch with success False needs load_mcp_config to raise.
ReloadConfig ==
    /\ program = "mcp_manager"
    /\ load_mcp_config
    /\ last' = [NoOp EXCEPT !.op = "reload", !.success = "true"]
    /\ UNCHANGED <<config_file, servers, reader, requestVars>>

\* MCPRegistry.reload_config(): self.servers.clear(), then load_config().
RegistryReload ==
    /\ program = "mcp_registry"
    /\ LET held == Referenced(mcp_servers, HeldByRequests)
           res == LoadFile(config_file, <<>>, clients, held)
       IN /\ servers' = res.reg
          /\ clients' = Collect(res.heap, Referenced(res.reg, held))
    /\ last' = [NoOp EXCEPT !.op = "registry_reload"]
    /\ UNCHANGED <<config_file, mcp_servers, reader, requestVars>>

InitRegistry == InitRegistries(ConfigFiles)

NextRegistry == EditConfig \/ LoadConfig \/ ReloadConfig \/ RegistryReload

SpecRegistry == InitRegistry /\ [][NextRegistry]_vars

(***************************************************************************)
(* Requests while the operator reloads the configuration of mcp_manager.   *)
(***************************************************************************)

\* The configurations the operator switches between: no server, the shipped
\* one, and one that drops the first server and launches the other differently.
LiveFiles ==
    { FileOf(<<>>),
      DefaultConfig,
      FileOf(<< [name |-> "db", mapping |-> TRUE, fields |-> [args |-> <<"db", "v2">>]] >>) }

InitLive == InitRegistries(LiveFiles) /\ program = "mcp_manager"

EditLive == EditConfig /\ config_file' \in LiveFiles

\* Number of requests followed while the configuration is reloaded.
NumLiveRequests == 1

LiveRequests == 1 .. NumLiveRequests

\* Requests are served one at a time here: what runs concurrently with a
\* request is the reload.
StartAlone(r) == Start(r) /\ \A q \in Requests : pc[q] \in {"idle", "done"}

NextLive ==
    \/ EditLive
    \/ ReloadConfig
    \/ \E r \in LiveRequests :
        \/ StartAlone(r)
        \/ SpawnDone(r)
        \/ SessEnterDone(r)
        \/ InitDone(r)
        \/ CallDone(r)
        \/ HandlerSessionDone(r)
        \/ HandlerCtxDone(r)
        \/ ExitSessionDone(r)
        \/ ExitCtxDone(r)

SpecLive == InitLive /\ [][NextLive]_vars

\* The scoped uses of the clients one after another: a request arrives only
\* when every earlier one has returned (sequential callers of call_mcp_server).
NextSerial ==
    \E r \in Requests :
        \/ StartAlone(r)
        \/ SpawnDone(r)
        \/ SessEnterDone(r)
        \/ InitDone(r)
        \/ CallDone(r)
        \/ HandlerSessionDone(r)
        \/ HandlerCtxDone(r)
        \/ ExitSessionDone(r)
        \/ ExitCtxDone(r)

SpecSerial == Init /\ [][NextSerial]_vars

(***************************************************************************)
(* get_available_mcp_tools() with no server name: a multi-step read of the *)
(* registry, `for name, server_info in mcp_servers.items()` with awaits in *)
(* the loop body, while the operator reloads the configuration.            *)
(***************************************************************************)

\* next() of the dict iterator after `at` items: RuntimeError when the dict
\* has changed size since the iterator was made, StopIteration after the last
\* item, else the item that is at the next position now.
ReaderNext(rd, tools) ==
    IF Len(mcp_servers) # rd.size
    THEN [rd EXCEPT !.pc = "done", !.value = <<>>, !.error = "RuntimeError"]
    ELSE IF rd.at = rd.size
    THEN [rd EXCEPT !.pc = "done", !.value = tools]
    ELSE [rd EXCEPT !.pc = "discovering", !.at = rd.at + 1, !.value = tools,
                    !.seen = Append(rd.seen, mcp_servers[rd.at + 1])]

\* The call up to its first await: tools = [], the iterator is made, and the
\* first item (if any) is read and its client entered.
ReaderStart ==
    /\ reader.pc = "idle"
    /\ reader' = ReaderNext([ReaderIdle EXCEPT !.at = 0, !.size = Len(mcp_servers),
                                               !.first = mcp_servers], <<>>)
    /\ UNCHANGED <<mcp_servers, servers, clients, config_file, last, requestVars>>

\* What the scoped session on an item's client and its list_tools() can give:
\* tool records that are mappings, tool records that are objects of the
\* protocol library, or an exception.
ListOutcomes == {OK, "OKObjects", Timeout}

\* The tools of a server after `tool['server_name'] = name` and
\* tools.extend(server_tools): a mapping takes the tag; an object does not
\* support item assignment, the TypeError is caught by the inner
\* `except Exception` and nothing of that server is added.
Tagged(tools, name, out) == IF out = OK THEN Append(tools, name) ELSE tools

\* The scoped session on the item's client and its list_tools() end: the tools
\* are added under the item's name, or the inner `except Exception` logs the
\* failure; then the loop asks the iterator for the next item.  The outer
\* `except Exception` turns an exception of the loop itself into `return []`.
ReaderDiscovered ==
    /\ reader.pc = "discovering"
    /\ \E out \in ListOutcomes :
        reader' = [ReaderNext(reader, Tagged(reader.value, reader.seen[reader.at].name, out))
                      EXCEPT !.outcomes = Append(reader.outcomes, out)]
    /\ UNCHANGED <<mcp_servers, servers, clients, config_file, last, requestVars>>

\* The caller has its list; the next call can start.
ReaderReturn ==
    /\ reader.pc = "done"
    /\ reader' = ReaderIdle
    /\ UNCHANGED <<mcp_servers, servers, clients, config_file, last, requestVars>>

InitReader == InitRegistries(LiveFiles) /\ program = "mcp_manager"

NextReader == ReaderStart \/ ReaderDiscovered \/ ReaderReturn \/ EditLive \/ ReloadConfig

SpecReader == InitReader /\ [][NextReader]_vars

(***************************************************************************)
(* The request-handling operations of mcp_manager next to load and reload: *)
(* find_server_by_keywords, call_mcp_tool and get_mcp_resource (the scoped *)
(* session of a request) and get_available_mcp_tools (the reader).         *)
(***************************************************************************)

\* No request and no discovery is under way.
Quiet == reader.pc = "idle" /\ \A q \in Requests : pc[q] \in {"idle", "done"}

\* A lookup that loads the configuration first when nothing is registered,
\* as get_mcp_client does.
FindQuietLoading ==
    /\ Quiet
    /\ program = "mcp_manager"
    /\ IF mcp_servers = <<>> THEN load_mcp_config ELSE UNCHANGED <<mcp_servers, clients>>
    /\ \E text \in Texts :
        last' = [NoOp EXCEPT !.op = "find", !.text = text,
                             !.value = find_server_by_keywords(mcp_servers', text)]
    /\ UNCHANGED <<servers, config_file, reader, requestVars>>

\* A lookup between the operations that await.
FindQuiet == Quiet /\ Find

\* The process is followed through one operation that awaits, a discovery or
\* a request, with lookups before and after it and the reload next to it.
Fresh == reader.pc = "idle" /\ \A q \in Requests : pc[q] = "idle"

ReaderStartFresh == Fresh /\ ReaderStart

StartFresh(r) == Fresh /\ Start(r)

NextHandlers ==
    \/ EditLive
    \/ ReloadConfig
    \/ FindQuiet
    \/ ReaderStartFresh
    \/ ReaderDiscovered
    \/ \E r \in Requests :
        \/ StartFresh(r)
        \/ SpawnDone(r)
        \/ SessEnterDone(r)
        \/ InitDone(r)
        \/ CallDone(r)
        \/ HandlerSessionDone(r)
        \/ HandlerCtxDone(r)
        \/ ExitSessionDone(r)
        \/ ExitCtxDone(r)

SpecHandlers == InitLive /\ [][NextHandlers]_vars

\* The scheduling the code guarantees when the tool server may stay silent.
\* An arrived request is scheduled, and the three awaits that __aenter__ and the
\* protocol operations wrap in asyncio.wait_for(..., timeout) end at the latest
\* when their timer fires.  The __aexit__ of a stdio_client context that has no
\* running subprocess has nothing to wait for.  The other awaits
\* (self.session.__aenter__(), the session's __aexit__, the __aexit__ of a
\* context with a running subprocess) have no timer: they end only if the
\* awaited library call ends, so no fairness is assumed for them.
TimedSteps(r) ==
    \/ Start(r)
    \/ SpawnDone(r)
    \/ InitDone(r)
    \/ CallDone(r)
    \/ (HandlerCtxDone(r) /\ transports[tore[r].ctx] # "open")
    \/ (ExitCtxDone(r) /\ transports[tore[r].ctx] # "open")

SpecTimed == Init /\ [][Next]_vars /\ \A r \in Requests : WF_vars(TimedSteps(r))

(***************************************************************************)
(* LLMToolSelector.  A selector is built over available_tools (tool name   *)
(* -> tool info, in insertion order) and select_tool_and_generate_args is  *)
(* called once on it.  The call is recorded in `last`: where it stands,    *)
(* what it was given, what the servers and the LLM answered, what it gave. *)
(***************************************************************************)

\* The tool name the selector falls back to (a literal of the source).
email_draft == <<"e", "m", "a", "i", "l", "_", "d", "r", "a", "f", "t">>

\* "User request", the literal that stands in for an empty original_email.
UserRequestLiteral == <<"U", "s", "e", "r", " ", "r", "e", "q", "u", "e", "s", "t">>

\* Names under which tools are registered with a selector.
ToolNames == {email_draft, <<"d", "b">>, <<"D", "b">>}

\* Most tools registered with one selector.
MaxTools == 2

\* tool_info: method is the tool's name on its server; the client is the
\* object the discovery opens (what it answers is an outcome of the step).
ToolInfo(n) == [name |-> n, method |-> "generate", keywords |-> <<>>, description |-> "tool"]

\* Every available_tools: up to MaxTools tools under distinct names.
ToolLists ==
    { d \in UNION { [1 .. n -> {ToolInfo(t) : t \in ToolNames}] : n \in 0 .. MaxTools } :
        \A i, j \in DOMAIN d : i # j => d[i].name # d[j].name }

\* str.strip(): leading and trailing whitespace is removed.
strip(s) ==
    LET keep == {i \in DOMAIN s : s[i] # " "}
    IN IF keep = {} THEN <<>>
       ELSE SubSeq(s, CHOOSE i \in keep : \A j \in keep : i <= j,
                      CHOOSE i \in keep : \A j \in keep : j <= i)

\* text.split(":")[-1]: what follows the last colon.
AfterLastColon(text) ==
    LET colons == {i \in DOMAIN text : text[i] = ":"}
    IN IF colons = {} THEN text
       ELSE SubSeq(text, (CHOOSE i \in colons : \A j \in colons : j <= i) + 1, Len(text))

\* email_utils.extract_email_content, and the same lines inlined in
\* _generate_fallback_arguments and do_task: the first pattern of the list that
\* occurs in the text splits it and the stripped last part is returned.  Of the
\* patterns only ":" can occur in a text of the model.
extract_email_content(user_request) ==
    IF Contains(user_request, <<":">>) THEN strip(AfterLastColon(user_request))
    ELSE user_request

\* `original_email or "User request"`.
OrUserRequest(text) == IF text = <<>> THEN UserRequestLiteral ELSE text

\* The input payloads: no field, a user_request, or a legacy field only.
SelectorTexts == { <<>>, <<" ">>, <<"d", "b">>, <<"d", ":", " ", "b">> }

InputDatas ==
    { <<>> }
    \cup { << [name |-> k, value |-> t] >> : k \in {"user_request", "body"}, t \in SelectorTexts }

RECURSIVE JoinValues(_)
\* `for key, value in input_data.items(): text_content += value + " "`.
JoinValues(d) ==
    IF d = <<>> THEN <<>> ELSE d[1].value \o <<" ">> \o JoinValues(Tail(d))

\* LLMToolSelector._generate_fallback_arguments.  The tone is "professional"
\* unless the text names another one, which no text of the model does.
generate_fallback_arguments(input_data) ==
    IF Has(input_data, "user_request")
    THEN [original_email |->
              OrUserRequest(extract_email_content(Lookup(input_data, "user_request").value)),
          tone |-> "professional", generated |-> "heuristic"]
    ELSE [original_email |-> OrUserRequest(strip(JoinValues(input_data))),
          tone |-> "professional", generated |-> "heuristic"]

\* What one discovery (`async with client`, list_tools, the search for the
\* configured method) can meet.
DiscoveryOutcomes == {"open_failed", "list_failed", "listed", "not_listed"}

\* _get_default_schema(tool_name).
get_default_schema(tool_name) == IF tool_name = email_draft THEN "email" ELSE "generic"

\* The loop body of _get_tool_schemas without its `except Exception` clause: a
\* failed discovery stores nothing.
DiscoveredUncaught(tool_schemas, tool_info, outcome) ==
    IF outcome \in {"open_failed", "list_failed"} THEN tool_schemas
    ELSE Put(tool_schemas, tool_info.name,
             [name |-> tool_info.name, method |-> tool_info.method,
              input_schema |-> IF outcome = "listed" THEN "server"
                               ELSE get_default_schema(tool_info.name)])

\* The loop body of _get_tool_schemas for one tool: the schema the server
\* listed for the method; the general info with the default schema when it
\* listed none; the same from the `except Exception` clause when the
\* discovery failed.
Discovered(tool_schemas, tool_info, outcome) ==
    Put(tool_schemas, tool_info.name,
        [name |-> tool_info.name, method |-> tool_info.method,
         input_schema |-> IF outcome = "listed" THEN "server"
                          ELSE get_default_schema(tool_info.name)])

\* A name the LLM can give that no selector has registered.
UnknownTool == <<"b">>

\* Raw texts of the LLM that are not JSON.
ResponseTexts == Texts \cup { a \o b : a \in ToolNames, b \in ToolNames }

\* The arguments the LLM wrote.
LLMArguments == [original_email |-> <<>>, tone |-> "professional", generated |-> "llm"]

\* The `{}` that parsed.get("arguments", {}) gives for an object without
\* arguments: a mapping with no field of the tool, written by nobody.
EmptyArguments == [generated |-> "default"]

\* What `await call_llm(...)` gives: it raises; it returns None (a message
\* without content); JSON that is no object; an object whose selected_tool is
\* absent, a name, or a list, and whose arguments are absent (<<>>) or
\* given; text that is not JSON.
Responses ==
    { [kind |-> k, tool |-> <<>>, arguments |-> <<>>, text |-> <<>>] :
        k \in {"raise", "null", "json_other"} }
    \cup { [kind |-> "object_list", tool |-> <<>>, arguments |-> a, text |-> <<>>] :
            a \in { <<>>, <<LLMArguments>> } }
    \cup { [kind |-> "object", tool |-> t, arguments |-> a, text |-> <<>>] :
            t \in { <<>> } \cup { <<n>> : n \in ToolNames \cup {UnknownTool} },
            a \in { <<>>, <<LLMArguments>> } }
    \cup { [kind |-> "text", tool |-> <<>>, arguments |-> <<>>, text |-> x] :
            x \in ResponseTexts }

\* parsed.get("arguments", {}).
ArgumentsOf(response) ==
    IF response.arguments = <<>> THEN EmptyArguments ELSE response.arguments[1]

\* A returned (tool_name, arguments), or the exception that left the function.
Selected(tool, args) == [raised |-> "none", tool |-> tool, arguments |-> args]

Raises(exc) == [raised |-> exc, tool |-> <<>>, arguments |-> <<>>]

\* The scan of _parse_llm_response: `tool_name in response_lower`, the names as
\* registered against the lowered response.
ScanLowered(available_tools, response) ==
    {i \in DOMAIN available_tools : Contains(lower(response), available_tools[i].name)}

\* LLMToolSelector._parse_llm_response.  response.strip() on None and
\* parsed.get on JSON that is no object raise AttributeError, which the
\* `except json.JSONDecodeError` clause does not catch.
parse_llm_response(available_tools, response) ==
    CASE response.kind \in {"null", "json_other"} -> Raises("AttributeError")
      [] response.kind = "object" ->
            Selected(IF response.tool = <<>> THEN email_draft ELSE response.tool[1],
                     ArgumentsOf(response))
      [] response.kind = "object_list" -> Selected(<<"[", "]">>, ArgumentsOf(response))
      [] OTHER ->
            LET found == ScanLowered(available_tools, response.text)
                args == generate_fallback_arguments(
                            << [name |-> "response", value |-> response.text] >>)
            IN IF found # {} THEN Selected(available_tools[FirstOf(found)].name, args)
               ELSE Selected(email_draft, args)

\* _fallback_selection with its result lost: the exception goes on to the caller.
fallback_reraised(input_data) == Raises("Exception")

\* LLMToolSelector._fallback_selection: both branches return email_draft.
fallback_selection(input_data) ==
    Selected(email_draft, generate_fallback_arguments(input_data))

\* A selector that answers every response with _fallback_selection.
select_by_fallback(available_tools, input_data, response) == fallback_selection(input_data)

\* LLMToolSelector._llm_select_and_generate from the answer of call_llm on:
\* whatever is raised inside the try (by the call, by the parse, by
\* `tool_name not in self.available_tools` on an unhashable tool_name) ends in
\* _fallback_selection; a parsed name that is not registered is replaced by
\* email_draft.
llm_select_and_generate(available_tools, input_data, response) ==
    IF response.kind = "raise" THEN fallback_selection(input_data)
    ELSE LET parsed == parse_llm_response(available_tools, response)
         IN IF parsed.raised # "none" \/ response.kind = "object_list"
            THEN fallback_selection(input_data)
            ELSE IF ~Has(available_tools, parsed.tool)
                 THEN Selected(email_draft, generate_fallback_arguments(input_data))
                 ELSE parsed

\* A call of select_tool_and_generate_args that has not answered yet.
SelectorCall(available_tools, input_data) ==
    [op |-> "select", pc |-> "discovering", available_tools |-> available_tools,
     input_data |-> input_data, discovery |-> <<>>, tool_schemas |-> <<>>,
     response |-> <<>>, value |-> <<>>]

\* create_llm_tool_selector(available_tools), then select_tool_and_generate_args
\* (input_data) up to the first await of _get_tool_schemas (or, with no tool,
\* up to `await call_llm`).
SelectorStart ==
    /\ last.op = "none"
    /\ \E available_tools \in ToolLists, input_data \in InputDatas :
        last' = [SelectorCall(available_tools, input_data) EXCEPT
                    !.pc = IF available_tools = <<>> THEN "asking" ELSE "discovering"]
    /\ UNCHANGED <<mcp_servers, servers, clients, config_file, reader, requestVars>>

\* _get_tool_schemas: the discovery of the next tool ends; after the last one
\* the prompts are built and call_llm is awaited.
SelectorDiscovered ==
    /\ last.op = "select" /\ last.pc = "discovering"
    /\ \E outcome \in DiscoveryOutcomes :
        LET at == Len(last.discovery) + 1
        IN last' = [last EXCEPT
               !.discovery = Append(@, outcome),
               !.tool_schemas = Discovered(@, last.available_tools[at], outcome),
               !.pc = IF at = Len(last.available_tools) THEN "asking" ELSE "discovering"]
    /\ UNCHANGED <<mcp_servers, servers, clients, config_file, reader, requestVars>>

\* `await call_llm(...)` ends and select_tool_and_generate_args returns.
SelectorAnswered ==
    /\ last.op = "select" /\ last.pc = "asking"
    /\ \E response \in Responses :
        last' = [last EXCEPT
               !.response = response,
               !.value = llm_select_and_generate(last.available_tools, last.input_data,
                                                 response),
               !.pc = "done"]
    /\ UNCHANGED <<mcp_servers, servers, clients, config_file, reader, requestVars>>

NextSelector == SelectorStart \/ SelectorDiscovered \/ SelectorAnswered

SpecSelector == Init /\ [][NextSelector]_vars

(***************************************************************************)
(* The entry points above the scoped session: call_mcp_server of the agent *)
(* service (its mcp_servers and load_mcp_config are a copy of mcp_manager's)*)
(* and process_task of the agent, which reaches call_mcp_tool through      *)
(* handle_email_task.                                                      *)
(***************************************************************************)

\* A server name no configuration registers.
UnknownServer == "nosuch"

\* main.call_mcp_server(server_name, ...) up to `async with client`: a name
\* that is not registered raises ValueError before the try statement, so no
\* except clause of the function sees it.
StartServerCall(r) ==
    /\ Arrives(r)
    /\ \E name \in Servers \cup {UnknownServer} :
           IF ~Has(mcp_servers, name)
           THEN /\ pc' = [pc EXCEPT ![r] = "done"]
                /\ raised' = [raised EXCEPT ![r] = "ValueError"]
                /\ UNCHANGED <<cl, clients>>
           ELSE /\ Enter(r, name)
                /\ UNCHANGED raised
    /\ UNCHANGED <<mcp_servers, sessions, transports, err, target, tore, regVars>>

NextService ==
    \E r \in Requests :
        \/ StartServerCall(r)
        \/ SpawnDone(r)
        \/ SessEnterDone(r)
        \/ InitDone(r)
        \/ CallDone(r)
        \/ HandlerSessionDone(r)
        \/ HandlerCtxDone(r)
        \/ ExitSessionDone(r)
        \/ ExitCtxDone(r)

SpecService == Init /\ [][NextService]_vars

\* Pieces of which the user requests are made: a word that marks an email
\* task, the colon that splits a request, words that are keywords of the
\* servers, and a blank.
Fragments == { <<"d", "r", "a", "f", "t">>, <<":">>, <<"b">>, <<"D">>, <<" ">> }

\* Most fragments in one user request.
MaxFragments == 3

RECURSIVE Concatenated(_)
\* Flattens a sequence of fragments.
Concatenated(fs) == IF fs = <<>> THEN <<>> ELSE fs[1] \o Concatenated(Tail(fs))

UserRequests ==
    { Concatenated(fs) : fs \in UNION { [1 .. n -> Fragments] : n \in 0 .. MaxFragments } }

\* The email keywords of detect_task_type that are written in ASCII.
EmailKeywords ==
    { <<"e", "m", "a", "i", "l">>, <<"r", "e", "p", "l", "y">>, <<"d", "r", "a", "f", "t">>,
      <<"m", "e", "s", "s", "a", "g", "e">>, <<"m", "a", "i", "l">> }

\* A classifier that takes every request for an email task.
detect_always_email(user_request) == "email_draft"

\* agent.detect_task_type.
detect_task_type(user_request) ==
    IF \E k \in EmailKeywords : Contains(lower(user_request), k)
    THEN "email_draft" ELSE "general_query"

\* The payloads process_task is given: something that is no mapping (a list,
\* a string, None), a mapping without user_request, a mapping whose
\* user_request is no string (a number), a mapping whose user_request is a
\* string.  user_request is <<>> when the key is absent, else <<value>>.
TaskInputs ==
    { [mapping |-> FALSE, user_request |-> <<>>],
      [mapping |-> TRUE, user_request |-> <<>>],
      [mapping |-> TRUE, user_request |-> <<[type |-> "int", text |-> <<>>]>>] }
        \cup { [mapping |-> TRUE, user_request |-> <<[type |-> "str", text |-> t]>>] :
                   t \in UserRequests }

\* agent.validate_input: a dict whose user_request (default "") is truthy and
\* a str.
validate_input(input_data) ==
    /\ input_data.mapping
    /\ input_data.user_request # <<>>
    /\ input_data.user_request[1].type = "str"
    /\ input_data.user_request[1].text # <<>>

\* input_data.get("user_request", "") of a payload that passed validate_input.
UserRequestOf(input_data) ==
    IF validate_input(input_data) THEN input_data.user_request[1].text ELSE <<>>

\* The tool handle_email_task (and do_task) asks for.
TaskTool == "generate_email_draft"

\* The text call_mcp_tool selects by when handle_email_task calls it: the
\* arguments of format_mcp_arguments have no user_request, so the selection
\* reads arguments["original_email"], the extracted content.
SelectionText(user_request) == OrUserRequest(extract_email_content(user_request))

\* agent.process_task(input_data) up to the first await of the scoped session:
\* an invalid payload returns create_error_response (success False) and a
\* general task returns handle_general_task's mapping (success True), both
\* without a tool call; an email task goes through handle_email_task to
\* call_mcp_tool with no server_name, whose success is known when the scoped
\* session has ended.
StartTask(r) ==
    /\ Arrives(r)
    /\ \A q \in Requests : pc[q] \in {"idle", "done"}
    /\ \E input_data \in TaskInputs :
        LET user_request == UserRequestOf(input_data)
            name == find_server_by_keywords(mcp_servers, SelectionText(user_request))
            email == /\ validate_input(input_data)
                     /\ detect_task_type(user_request) = "email_draft"
            calls == /\ email
                     /\ name # <<>>
                     /\ Has(mcp_servers, name[1])
        IN /\ last' = [op |-> "process_task", input_data |-> input_data,
                       text |-> user_request,
                       value |-> IF calls THEN name ELSE <<>>,
                       raised |-> FALSE,
                       success |-> IF calls THEN "none"
                                   ELSE IF validate_input(input_data) /\ ~email
                                        THEN "true" ELSE "false"]
           /\ IF calls
              THEN Enter(r, name[1])
              ELSE /\ pc' = [pc EXCEPT ![r] = "done"]
                   /\ UNCHANGED <<cl, clients>>
    /\ UNCHANGED <<mcp_servers, sessions, transports, err, target, tore, raised,
                   config_file, servers, program, reader>>

NextTask ==
    \E r \in LiveRequests :
        \/ StartTask(r)
        \/ SpawnDone(r)
        \/ SessEnterDone(r)
        \/ InitDone(r)
        \/ CallDone(r)
        \/ HandlerSessionDone(r)
        \/ HandlerCtxDone(r)
        \/ ExitSessionDone(r)
        \/ ExitCtxDone(r)

SpecTask == Init /\ [][NextTask]_vars

\* process_task serving the first request of the process: the registry is as
\* the import left it and no client has been used.
StartFirstTask(r) == (\A q \in Requests : pc[q] = "idle") /\ StartTask(r)

NextFirstTask ==
    \E r \in Requests :
        \/ StartFirstTask(r)
        \/ SpawnDone(r)
        \/ SessEnterDone(r)
        \/ InitDone(r)
        \/ CallDone(r)
        \/ HandlerSessionDone(r)
        \/ HandlerCtxDone(r)
        \/ ExitSessionDone(r)
        \/ ExitCtxDone(r)

SpecFirstTask == Init /\ [][NextFirstTask]_vars

\* The tools the servers list (what a server exposes is its own business; the
\* mailer drafts emails, the other server does not).
ExposedTools ==
    [s \in Servers |-> IF s = "mailer" THEN {"generate_email_draft"} ELSE {"run_query"}]

\* The name under which a client object is registered.
ServerOf(reg, c) == reg[CHOOSE i \in DOMAIN reg : reg[i].client = c].name

\* str(e): asyncio.wait_for raises TimeoutError() without arguments, whose
\* text is empty; the other exceptions carry a message.
str(exc) == IF exc = Timeout THEN "" ELSE exc

\* The mapping call_mcp_tool returns: from inside the scope, or from its
\* `except Exception as e`.
call_mcp_tool_return(server_name, exc) ==
    IF exc = "none"
    THEN [success |-> TRUE, server_name |-> server_name, tool_name |-> TaskTool]
    ELSE [success |-> FALSE, server_name |-> server_name, tool_name |-> TaskTool,
          error |-> str(exc)]

\* email_utils.create_error_response: response.update(additional_info).
create_error_response(error_message, additional_info) ==
    additional_info @@ [success |-> FALSE, error |-> error_message]

\* What handle_email_task (and so process_task) returns for the result of
\* call_mcp_tool.
handle_email_task_return(mcp_result) ==
    IF mcp_result.success
    THEN mcp_result @@ [task_type |-> "email_draft"]
    ELSE create_error_response("Email draft generation failed",
                               [mcp_error |-> mcp_result.error, task_type |-> "email_draft"])

(***************************************************************************)
(* mcp_manager.get_mcp_client next to the edits and reloads of the         *)
(* configuration.                                                          *)
(***************************************************************************)

\* What a caller passes as server_name: nothing (None), the name of a server
\* of the configurations, or a name no configuration has.
ClientNames == { <<>> } \cup { <<s>> : s \in Servers \cup {UnknownServer} }

\* The lookup of get_mcp_client in the registry it finds: the named server's
\* client when `server_name and server_name in mcp_servers`; else, when the
\* registry is not empty, the client of the first server; else None (<<>>).
get_mcp_client(reg, server_name) ==
    IF server_name # <<>> /\ Has(reg, server_name[1])
    THEN <<Lookup(reg, server_name[1]).client>>
    ELSE IF reg # <<>> THEN <<reg[1].client>>
    ELSE <<>>

\* get_mcp_client(server_name): on an empty registry load_mcp_config() runs
\* first.
GetMcpClient ==
    /\ program = "mcp_manager"
    /\ IF mcp_servers = <<>> THEN load_mcp_config ELSE UNCHANGED <<mcp_servers, clients>>
    /\ \E server_name \in ClientNames :
        last' = [NoOp EXCEPT !.op = "get_mcp_client", !.text = server_name,
                             !.value = get_mcp_client(mcp_servers', server_name)]
    /\ UNCHANGED <<config_file, servers, reader, requestVars>>

InitClient == InitRegistries(ConfigFiles) /\ program = "mcp_manager"

NextClient == EditConfig \/ ReloadConfig \/ GetMcpClient

SpecClient == InitClient /\ [][NextClient]_vars

(***************************************************************************)
(* The gateway (fastapi_service): POST /do-task forwards the request to    *)
(* the agent service and answers with what it got.                         *)
(***************************************************************************)

\* The payloads that pass the validation of DoTaskRequest (input_data is a
\* mapping).
GatewayInputs == {d \in TaskInputs : d.mapping}

\* Status codes the agent service answers with: success, an unknown route or
\* server, a request it cannot validate, an unhandled error.
AgentStatuses == {200, 404, 422, 500}

\* What `await client.post(...)` gives: a response with a status whose body
\* is JSON or not, or an exception of httpx: a timeout (ConnectTimeout is one
\* of them), a refused connection, or another transport error.
AgentOutcomes ==
    { [kind |-> "response", status |-> st, json |-> j] : st \in AgentStatuses, j \in BOOLEAN }
    \cup { [kind |-> k, status |-> 0, json |-> FALSE] :
             k \in {"ReadTimeout", "ConnectTimeout", "ConnectError", "ReadError"} }

\* The exception raised inside the try of do_task ("none": it returns
\* response.json()): HTTPException for a status other than 200, the decode
\* error of a body that is no JSON, or the exception of the post.
RaisedInTry(outcome) ==
    IF outcome.kind # "response" THEN outcome.kind
    ELSE IF outcome.status # 200 THEN "HTTPException"
    ELSE IF ~outcome.json THEN "JSONDecodeError"
    ELSE "none"

\* The except clauses of do_task, in their order: httpx.TimeoutException,
\* httpx.ConnectError, then Exception, which HTTPException is a subclass of.
do_task(outcome) ==
    LET exc == RaisedInTry(outcome)
    IN CASE exc = "none" -> 200
         [] exc \in {"ReadTimeout", "ConnectTimeout"} -> 504
         [] exc = "ConnectError" -> 503
         [] OTHER -> 500

\* A client posts to /do-task and is answered.
DoTask ==
    /\ last.op = "none"
    /\ \E input_data \in GatewayInputs, outcome \in AgentOutcomes :
        last' = [op |-> "do_task", input_data |-> input_data, outcome |-> outcome,
                 value |-> do_task(outcome)]
    /\ UNCHANGED <<mcp_servers, servers, clients, config_file, reader, requestVars>>

NextGateway == DoTask

SpecGateway == Init /\ [][NextGateway]_vars

(***************************************************************************)
(* Vocabulary of the claims.                                               *)
(***************************************************************************)

\* A session or transport that is alive: opened and not closed.
LiveSession(s) == sessions[s] \in {"created", "started", "ready"}

LiveTransport(t) == transports[t] = "open"

\* Request r is between its open and its own teardown: it still uses its session.
Using(r) == pc[r] \in {"sess_entering", "initializing", "calling"}

\* Every request has returned (or never arrived).
AllReturned == \A r \in Requests : pc[r] \in {"idle", "done"}

\* No other request ever used the client object of request r.
Alone(r) == \A q \in Requests \ {r} : cl[q] # cl[r]

\* Request r left its `async with` through __aexit__ (its open had succeeded).
Exited(r) == pc[r] = "done" /\ tore[r].via = "exit"

\* Request r's open failed and __aenter__'s except clause ran.
OpenFailed(r) == pc[r] = "done" /\ tore[r].via = "handler"

\* In this step request r issues its protocol call (call_tool is sent).
IssuesCall(r) == pc[r] = "initializing" /\ pc'[r] = "calling"

\* In this step request r's `async with` calls MCPClient.__aexit__ (close).
CallsClose(r) == pc[r] = "calling" /\ pc'[r] \in {"x_sess", "x_ctx"}

(***************************************************************************)
(* C1.  Each request performs its protocol calls on a session it opened    *)
(* itself, and no teardown closes a session that another request opened    *)
(* and is still using.                                                     *)
(***************************************************************************)
C1_OwnSession ==
    \A r \in Requests :
        /\ pc[r] = "calling" => target[r].on = r
        /\ Using(r) => sessions[r] # "closed"

(***************************************************************************)
(* C2.  Once every request has returned, every subprocess/transport and    *)
(* session opened during those requests has been closed.  Stated for the   *)
(* runs in which no teardown step raised, so that a leak can only come     *)
(* from the interleaving.                                                  *)
(***************************************************************************)
C2_NothingLeftOpen ==
    (AllReturned /\ \A r \in Requests : ~tore[r].failed)
        => \A r \in Requests : ~LiveTransport(r) /\ ~LiveSession(r)

(***************************************************************************)
(* C3.  A single scoped use (no other request uses the client): on every   *)
(* exit path both the protocol session and the transport it opened are     *)
(* released when control returns, the session before the transport.        *)
(***************************************************************************)
C3_ScopedRelease ==
    \A r \in Requests :
        Alone(r) =>
            /\ Exited(r) => sessions[r] = "closed" /\ transports[r] = "closed"
            /\ transports[r] = "closed" => sessions[r] = "closed"

(***************************************************************************)
(* C4.  If the handshake times out, open fails with the timeout error      *)
(* reaching the caller, and nothing the open attempt started is alive      *)
(* after it returned.                                                      *)
(***************************************************************************)
C4_HandshakeTimeout ==
    \A r \in Requests :
        (OpenFailed(r) /\ err[r] = Timeout) =>
            /\ raised[r] = Timeout
            /\ ~LiveTransport(r)
            /\ ~LiveSession(r)

(***************************************************************************)
(* C5.  close (__aexit__) never raises: a failure of a teardown step is    *)
(* swallowed, and what the caller of the scope observes is exactly the     *)
(* outcome of the body: its error when it raised, nothing when it did not. *)
(***************************************************************************)
C5_CloseNeverRaises ==
    \A r \in Requests :
        Exited(r) => raised[r] = err[r] /\ raised[r] # "CloseError"

\* A body raised, a teardown step of its close failed, and the request returned.
C5_Witness ==
    \E r \in Requests : Exited(r) /\ tore[r].failed /\ err[r] # "none"

(***************************************************************************)
(* C6.  close called a second time on the same session object (a close of  *)
(* it has already returned and its session is closed) is a no-op: it       *)
(* invokes no teardown on the protocol session or the transport.           *)
(***************************************************************************)
C6_SecondCloseNoop ==
    [][\A r \in Requests :
          (/\ CallsClose(r)
           /\ \E q \in Requests \ {r} : Exited(q) /\ cl[q] = cl[r]
           /\ sessions[clients[cl[r]].session] = "closed")
              => tore'[r].sess = None /\ tore'[r].ctx = None]_vars

(***************************************************************************)
(* C7.  A session object (the MCPClient the registry holds) reaches Closed *)
(* once: after a scoped use of it has ended, closed or failed, it never    *)
(* re-enters Handshaking, so no later request opens the same object.       *)
(***************************************************************************)
C7_NeverReopened ==
    [][\A r \in Requests :
          (pc[r] = "idle" /\ pc'[r] = "spawning")
              => \A q \in Requests \ {r} : pc[q] = "done" => cl[q] # cl'[r]]_vars

(***************************************************************************)
(* C8.  A protocol operation is accepted (sent to the server) only while   *)
(* the session it goes to is Ready; on a session not opened, not           *)
(* initialized or already closed it is rejected.                           *)
(***************************************************************************)
C8_OnlyWhenReady ==
    [][\A r \in Requests :
          IssuesCall(r) => sessions'[target'[r].on] = "ready"]_vars

(***************************************************************************)
(* C9.  Within one request the handshake of the session it opened has      *)
(* completed when it issues its protocol call, and that session has been   *)
(* torn down when the request returns after the call.                      *)
(***************************************************************************)
C9_HandshakeCallTeardown ==
    [][\A r \in Requests :
          /\ IssuesCall(r) => sessions'[r] = "ready"
          /\ (pc[r] # "done" /\ Exited(r)') => sessions'[r] = "closed"]_vars

(***************************************************************************)
(* C10.  A request cancelled at a suspension point of its open or of its   *)
(* body has torn down everything it had opened when its task returns.      *)
(***************************************************************************)
C10_CancelTeardown ==
    \A r \in Requests :
        (pc[r] = "done" /\ err[r] = "CancelledError")
            => ~LiveTransport(r) /\ ~LiveSession(r)

(***************************************************************************)
(* C11.  Every request that has started eventually returns a response,     *)
(* even if the tool server never answers at some step: every suspension    *)
(* point gives up with a timeout instead of waiting forever.               *)
(***************************************************************************)
C11_EveryRequestReturns ==
    \A r \in Requests : (pc[r] = "spawning") ~> (pc[r] = "done")

\* Two characters that differ at most in case.
SameLetter(a, b) == a = b \/ {a, b} = {"d", "D"}

\* Keyword k occurs in text t as a case-insensitive substring.
OccursIgnoringCase(k, t) ==
    \E i \in 0 .. Len(t) - Len(k) : \A n \in 1 .. Len(k) : SameLetter(t[i + n], k[n])

\* The positions, in load order, of the descriptors with a keyword occurring in t.
Matching(reg, t) ==
    {i \in DOMAIN reg : \E j \in DOMAIN reg[i].keywords : OccursIgnoringCase(reg[i].keywords[j], t)}

\* The registry the last lookup was made on.
LookedUp == IF last.op = "find" THEN mcp_servers ELSE servers

IsLookup == last.op \in {"find", "registry_find"}

(***************************************************************************)
(* C12.  For every non-empty registry and every text in which no           *)
(* descriptor's keyword occurs, find-by-keyword returns the first-loaded   *)
(* descriptor: never None and never another descriptor.                    *)
(***************************************************************************)
C12_FallbackToFirst ==
    (IsLookup /\ LookedUp # <<>> /\ Matching(LookedUp, last.text) = {})
        => last.value = <<LookedUp[1].name>>

(***************************************************************************)
(* C13.  find-by-keyword returns the first descriptor, in load order, that *)
(* has at least one keyword occurring in the text as a case-insensitive    *)
(* substring: load order decides, not keyword length or specificity.       *)
(***************************************************************************)
C13_FirstMatchInLoadOrder ==
    (IsLookup /\ Matching(LookedUp, last.text) # {})
        => \E i \in Matching(LookedUp, last.text) :
              /\ \A j \in Matching(LookedUp, last.text) : i <= j
              /\ last.value = <<LookedUp[i].name>>

\* Two descriptors match; the later-loaded one matches with a longer keyword and
\* the first one only through case folding.
C13_Witness ==
    /\ IsLookup
    /\ Matching(LookedUp, last.text) = {1, 2}
    /\ \A j \in DOMAIN LookedUp[1].keywords :
          /\ ~Contains(last.text, LookedUp[1].keywords[j])
          /\ Len(LookedUp[1].keywords[j]) = 1
    /\ \E j \in DOMAIN LookedUp[2].keywords :
          /\ Len(LookedUp[2].keywords[j]) = 2
          /\ OccursIgnoringCase(LookedUp[2].keywords[j], last.text)

\* What all() shows of a registry: its descriptors, in order, without the
\* client objects.
Described(reg) ==
    [i \in DOMAIN reg |-> [name |-> reg[i].name, command |-> reg[i].command,
                           args |-> reg[i].args, description |-> reg[i].description,
                           keywords |-> reg[i].keywords]]

\* The file can be loaded completely / what it describes.
Loadable(file) == LoadFile(file, <<>>, <<>>, {}).error = "none"

DescribedBy(file) == Described(LoadFile(file, <<>>, <<>>, {}).reg)

\* The last operation was a reload, and the registry it reloaded.
IsReload == last.op \in {"reload", "registry_reload"}

Reloaded == IF last.op = "reload" THEN mcp_servers ELSE servers

(***************************************************************************)
(* C14.  A successful reload followed immediately by all() returns exactly *)
(* the descriptors of the newly loaded configuration, in its order: no     *)
(* descriptor absent from the new configuration survives.                  *)
(***************************************************************************)
C14_ReloadReplaces ==
    (IsReload /\ Loadable(config_file)) => Described(Reloaded) = DescribedBy(config_file)

(***************************************************************************)
(* C15.  If a reload fails (source absent, not parseable, or one entry     *)
(* malformed part-way through), the registry afterwards holds exactly the  *)
(* descriptor set it held before the reload.                               *)
(***************************************************************************)
C15_FailedReloadKeeps ==
    [][(IsReload' /\ ~Loadable(config_file))
          => /\ Described(mcp_servers') = Described(mcp_servers)
             /\ Described(servers') = Described(servers)]_vars

(***************************************************************************)
(* C16.  Loading from an absent or malformed source fails visibly: load    *)
(* does not return normally, and reload reports success=false.             *)
(***************************************************************************)
C16_LoadFailureVisible ==
    (last.op \in {"load", "reload", "registry_reload"}
        /\ (~config_file.exists \/ ~config_file.parses))
        => (last.raised \/ last.success = "false")

(***************************************************************************)
(* C19.  In every reachable registry state every registered descriptor     *)
(* carries command, args and description, and its command is non-empty.    *)
(***************************************************************************)
C19_DescriptorsComplete ==
    \A reg \in {mcp_servers, servers} : \A i \in DOMAIN reg :
        /\ {"command", "args", "description"} \subseteq DOMAIN reg[i]
        /\ reg[i].command # ""

\* A configuration with an entry whose command is empty was reloaded, and the
\* entry before it was registered.
C19_Witness ==
    /\ IsReload
    /\ Reloaded # <<>>
    /\ \E i \in DOMAIN config_file.items :
          /\ i > 1
          /\ config_file.items[i].mapping
          /\ Get(config_file.items[i].fields, "command", "python") = ""

\* Request r is between its start and its return.
InFlight(r) == pc[r] \notin {"idle", "done"}

\* Everything the remaining steps of request r read: its position, its client
\* object with its launch parameters and fields, and the sessions and
\* transports.
View(r) == <<pc[r], cl[r], clients[cl[r]], err[r], target[r], tore[r], sessions, transports>>

\* Under SpecLive the step that is neither a step of a request nor a change of
\* the file is a reload.
ReloadStep == pc' = pc /\ config_file' = config_file /\ mcp_servers' # mcp_servers

(***************************************************************************)
(* C17.  A reload while a request has a session in flight does not disturb *)
(* that session: the request keeps the client and launch parameters of the *)
(* descriptor it looked up, and everything its handshake, calls and        *)
(* teardown go on from is as it was before the reload.                     *)
(***************************************************************************)
C17_ReloadLeavesSessions ==
    [][ReloadStep => \A r \in Requests : InFlight(r) => View(r)' = View(r)]_vars

\* A request is in its handshake or call on a client that the registry, reloaded
\* since the request started, no longer holds: a server is now launched
\* otherwise, by a new client object.
C17_Witness ==
    \E r \in Requests :
        /\ pc[r] \in {"initializing", "calling"}
        /\ last.op = "reload"
        /\ \A i \in DOMAIN mcp_servers : mcp_servers[i].client # cl[r]
        /\ \E i \in DOMAIN mcp_servers :
              <<mcp_servers[i].command, mcp_servers[i].args>> # clients[cl[r]].server_params

\* On the registry as it is, selection by keyword gives a server for every text
\* exactly if there is a server.  It reads the names and keywords of the
\* descriptors only, so it is looked at when the first request starts and again
\* whenever those change.
SelectionTotal ==
    \A text \in Texts :
        (find_server_by_keywords(mcp_servers, text) = <<>>) <=> (mcp_servers = <<>>)

\* The step in which the first request of the run starts.
FirstStart == (\A r \in Requests : pc[r] = "idle") /\ pc' # pc

(***************************************************************************)
(* C20.  Keyword-based selection never fails when the registry is          *)
(* non-empty; with an empty registry it gives no server, and the           *)
(* orchestrator then returns a structured failure without opening any      *)
(* session and without raising.                                            *)
(***************************************************************************)
C20_SelectionAndEmptyRegistry ==
    [][/\ (Described(mcp_servers') # Described(mcp_servers) \/ FirstStart) => SelectionTotal'
       /\ \A r \in Requests :
             (pc[r] = "idle" /\ pc'[r] # "idle" /\ mcp_servers = <<>>)
                 => /\ pc'[r] = "done"
                    /\ result(r)' = "failure"
                    /\ raised'[r] = "none"
                    /\ sessions' = sessions /\ transports' = transports
                    /\ clients' = clients /\ cl'[r] = None]_vars

\* A request that met an empty registry returned its failure.
C20_Witness ==
    \E r \in Requests :
        /\ pc[r] = "done" /\ cl[r] = None /\ result(r) = "failure"
        /\ sessions[r] = "none" /\ transports[r] = "none"
        /\ mcp_servers = <<>>

(***************************************************************************)
(* C18.  Reload is safe for a reader in the middle of a multi-step read of *)
(* the registry: the read neither fails nor loses results, and the         *)
(* descriptors it observed are the set from before the reload or the set   *)
(* after it, never a mix.                                                  *)
(***************************************************************************)
C18_ReaderSeesOneRegistry ==
    [][(reader.pc = "discovering" /\ reader'.pc = "done")
          => /\ reader'.error = "none"
             /\ \/ Described(reader.seen) = Described(reader.first)
                \/ Described(reader.seen) = Described(mcp_servers)]_vars

\* The selector call has returned (or raised).
Answered == last.op = "select" /\ last.pc = "done"

\* No tool name.
NoTool == <<>>

(***************************************************************************)
(* C21.  Given an empty set of registered tools,                           *)
(* select_tool_and_generate_args reports a selection error: it neither     *)
(* raises nor returns a tool name.                                         *)
(***************************************************************************)
C21_EmptyToolsReported ==
    (Answered /\ last.available_tools = <<>>)
        => (last.value.raised = "none" /\ last.value.tool = NoTool)

(***************************************************************************)
(* C22.  For every non-empty set of registered tools and every LLM         *)
(* outcome, the tool name select_tool_and_generate_args returns is one of  *)
(* the registered tools.                                                   *)
(***************************************************************************)
C22_OnlyRegisteredNames ==
    (Answered /\ last.available_tools # <<>> /\ last.value.raised = "none")
        => Has(last.available_tools, last.value.tool)

\* The registered tools whose name, exactly as registered, occurs in the raw
\* response.
ScanRaw(available_tools, response) ==
    {i \in DOMAIN available_tools : Contains(response, available_tools[i].name)}

(***************************************************************************)
(* C23.  When the LLM response is not well-formed JSON and its raw text    *)
(* contains the name of a registered tool exactly as registered, the first *)
(* such tool in registry order is selected, with heuristically generated   *)
(* arguments.                                                              *)
(***************************************************************************)
C23_NameInRawTextSelected ==
    (/\ Answered
     /\ last.response.kind = "text"
     /\ ScanRaw(last.available_tools, last.response.text) # {})
        => /\ last.value.raised = "none"
           /\ last.value.tool =
                  last.available_tools[
                      FirstOf(ScanRaw(last.available_tools, last.response.text))].name
           /\ last.value.arguments.generated = "heuristic"

(***************************************************************************)
(* C24.  If the LLM call fails, or its response cannot be used (null, not  *)
(* an object), select_tool_and_generate_args raises nothing: it returns    *)
(* the selection of the deterministic fallback.                            *)
(***************************************************************************)
C24_LLMFailureFallsBack ==
    (Answered /\ last.response.kind \in {"raise", "null", "json_other"})
        => /\ last.value.raised = "none"
           /\ last.value.tool = email_draft
           /\ last.value.arguments = generate_fallback_arguments(last.input_data)

\* An unusable response was answered by the fallback, for a payload with a
\* user_request and for one without.
C24_Witness ==
    /\ Answered
    /\ last.response.kind = "json_other"
    /\ last.value.raised = "none"
    /\ last.input_data # <<>>
    /\ last.value.arguments.original_email = <<"b">>

\* The names of a dict, in insertion order.
NamesOf(d) == [i \in DOMAIN d |-> d[i].name]

(***************************************************************************)
(* C25.  Tool discovery produces a schema for every registered tool: when  *)
(* opening the session or listing fails for a tool, or the server does not *)
(* list the configured tool, the default schema is substituted and the     *)
(* discovery of the remaining tools continues; the schema set has exactly  *)
(* the registered tool names as keys.                                      *)
(***************************************************************************)
C25_SchemaForEveryTool ==
    (last.op = "select")
        => /\ NamesOf(last.tool_schemas) =
                  SubSeq(NamesOf(last.available_tools), 1, Len(last.discovery))
           /\ last.pc # "discovering" => Len(last.discovery) = Len(last.available_tools)
           /\ \A i \in DOMAIN last.discovery :
                  last.discovery[i] # "listed"
                      => last.tool_schemas[i].input_schema =
                             get_default_schema(last.available_tools[i].name)

\* The discovery of the first of two tools failed and that of the second did
\* not: both have their schema when the LLM is asked.
C25_Witness ==
    /\ last.op = "select" /\ last.pc = "asking"
    /\ Len(last.available_tools) = 2
    /\ last.discovery = <<"open_failed", "listed">>
    /\ Len(last.tool_schemas) = 2

\* The servers of a read whose discovery succeeded (the session opened and
\* list_tools returned), in the order they were read.
Succeeded(rd) ==
    LET upto[i \in 0 .. Len(rd.outcomes)] ==
            IF i = 0 THEN <<>>
            ELSE IF rd.outcomes[i] \in {OK, "OKObjects"}
                 THEN Append(upto[i - 1], rd.seen[i].name)
                 ELSE upto[i - 1]
    IN upto[Len(rd.outcomes)]

(***************************************************************************)
(* C29.  get_available_mcp_tools over all servers returns, in load order,  *)
(* the tools of every server whose discovery succeeded, each tagged with   *)
(* the server_name of its server; a server whose discovery fails           *)
(* contributes no tools and does not keep the tools of the others back.    *)
(***************************************************************************)
C29_ToolsOfEverySucceeded ==
    reader.pc = "done" => reader.value = Succeeded(reader)

(***************************************************************************)
(* C26.  The orchestrator invokes a tool on a server only if that tool     *)
(* name is among the tools the server exposes; otherwise it returns a      *)
(* failure without sending the invoke to the server.                       *)
(***************************************************************************)
C26_OnlyExposedTools ==
    [][\A r \in Requests :
          IssuesCall(r) => TaskTool \in ExposedTools[ServerOf(mcp_servers, cl[r])]]_vars

(***************************************************************************)
(* C27.  The orchestrating calls never raise to their caller: for every    *)
(* failure, an unknown server name included, they return a structured      *)
(* result with success false and an error message.                         *)
(***************************************************************************)
C27_NeverRaises ==
    \A r \in Requests : pc[r] = "done" => result(r) \in {"success", "failure"}

\* The mapping call_mcp_tool returned for request r, which targeted a server.
Returned(r) == call_mcp_tool_return(ServerOf(mcp_servers, cl[r]), raised[r])

\* The mapping names the server and carries a message.
NamesServerAndError(response, server_name, field) ==
    /\ "server_name" \in DOMAIN response
    /\ response.server_name = server_name
    /\ field \in DOMAIN response
    /\ response[field] # ""

(***************************************************************************)
(* C28.  Every failure result returned for a request that targeted a       *)
(* server, the one process_task hands back included, contains the name of  *)
(* the targeted server and a message carrying the original error.          *)
(***************************************************************************)
C28_FailureNamesServer ==
    \A r \in Requests :
        (pc[r] = "done" /\ cl[r] # None /\ result(r) = "failure")
            => /\ NamesServerAndError(Returned(r), ServerOf(mcp_servers, cl[r]), "error")
               /\ NamesServerAndError(handle_email_task_return(Returned(r)),
                                      ServerOf(mcp_servers, cl[r]), "mcp_error")

(***************************************************************************)
(* C30.  For every request handled by process_task that results in a tool  *)
(* call, the server called is the one find-by-keyword returns for the      *)
(* request's user_request text, not for a text derived from it.            *)
(***************************************************************************)
C30_SelectedByUserRequest ==
    [][\A r \in Requests :
          (pc[r] = "idle" /\ pc'[r] = "spawning" /\ last'.op = "process_task")
              => <<ServerOf(mcp_servers, cl'[r])>> =
                     find_server_by_keywords(mcp_servers, last'.text)]_vars

(***************************************************************************)
(* C31.  When opening a session fails and the cleanup of the partially     *)
(* opened session or transport also fails, the caller receives the         *)
(* original open failure, and the cleanup of the transport is still        *)
(* attempted when closing the protocol session raised: the except clause   *)
(* of __aenter__ leaves with the open error, and it leaves from its        *)
(* session step only when there is no transport to clean up.               *)
(***************************************************************************)
C31_OpenErrorSurvivesCleanup ==
    [][\A r \in Requests :
          pc[r] \in {"h_sess", "h_ctx"}
              => /\ pc'[r] = "done" => raised'[r] = err[r]
                 /\ (pc[r] = "h_sess" /\ clients[cl[r]].client_ctx # None)
                        => pc'[r] \in {"h_sess", "h_ctx"}]_vars

(***************************************************************************)
(* C32.  Across a sequence of scoped uses of the same client, a failed     *)
(* open tears down only what that open attempt created: the except clause  *)
(* of __aenter__ never closes again a protocol session or a transport of   *)
(* an earlier scoped use that has already finished.                        *)
(***************************************************************************)
C32_FailedOpenClosesOwnOnly ==
    [][\A r \in Requests :
          (pc'[r] \in {"h_sess", "h_ctx"} /\ tore'[r] # tore[r])
              => \A q \in Requests \ {r} :
                     pc[q] = "done" => tore'[r].sess # q /\ tore'[r].ctx # q]_vars

\* The payload is a mapping whose user_request is a non-empty string.
ValidPayload(input_data) ==
    /\ input_data.mapping
    /\ input_data.user_request # <<>>
    /\ input_data.user_request[1].type = "str"
    /\ input_data.user_request[1].text # <<>>

\* The payload's user_request has one of the email keywords, in any case.
HasEmailKeyword(input_data) ==
    \E k \in EmailKeywords : OccursIgnoringCase(k, input_data.user_request[1].text)

\* In this step process_task takes up request r.
ProcessesTask(r) == pc[r] = "idle" /\ pc'[r] # "idle" /\ last'.op = "process_task"

\* In this step request r returns without having contacted a server.
ReturnsUncontacted(r) ==
    /\ pc'[r] = "done"
    /\ cl'[r] = None
    /\ UNCHANGED <<clients, sessions, transports>>

(***************************************************************************)
(* C33.  process_task opens a session only for a valid payload classified  *)
(* as an email task: for a payload that is no mapping or whose             *)
(* user_request is missing, empty or no string it returns success false    *)
(* without contacting a server, and for a valid request without an email   *)
(* keyword it returns a success result without contacting a server.        *)
(***************************************************************************)
C33_ContactsOnlyForEmailTasks ==
    [][\A r \in Requests :
          ProcessesTask(r) =>
              LET input_data == last'.input_data
              IN /\ pc'[r] = "spawning"
                        => ValidPayload(input_data) /\ HasEmailKeyword(input_data)
                 /\ ~ValidPayload(input_data)
                        => ReturnsUncontacted(r) /\ last'.success = "false"
                 /\ (ValidPayload(input_data) /\ ~HasEmailKeyword(input_data))
                        => ReturnsUncontacted(r) /\ last'.success = "true"]_vars

\* Each of the three cases has happened: here a general task was answered
\* with success and no client was taken.
C33_Witness ==
    /\ last.op = "process_task"
    /\ ValidPayload(last.input_data)
    /\ ~HasEmailKeyword(last.input_data)
    /\ last.success = "true"
    /\ \E r \in Requests : pc[r] = "done" /\ cl[r] = None

\* This step belongs to a request-handling operation: a step of a request's
\* scoped session (call_mcp_tool, get_mcp_resource), a step of the discovery
\* (get_available_mcp_tools) or a lookup (find_server_by_keywords).
HandlerStep ==
    \/ pc' # pc
    \/ reader' # reader
    \/ last' # last /\ last'.op = "find"

(***************************************************************************)
(* C34.  The request-handling operations (find_server_by_keywords,         *)
(* call_mcp_tool, get_available_mcp_tools, get_mcp_resource) leave the     *)
(* descriptors of the registry unchanged: a step that changes them is a    *)
(* load or a reload.                                                       *)
(***************************************************************************)
C34_HandlersKeepDescriptors ==
    [][/\ HandlerStep => Described(mcp_servers') = Described(mcp_servers)
       /\ Described(mcp_servers') # Described(mcp_servers)
              => last'.op \in {"load", "reload"}]_vars

\* A request went through its scoped session on a registered server and a
\* lookup found a server afterwards.
C34_Witness ==
    /\ \E r \in Requests : pc[r] = "done" /\ cl[r] # None /\ tore[r].via = "exit"
    /\ last.op = "find"
    /\ last.value # <<>>
    /\ mcp_servers # <<>>

\* The LLM answered with a JSON object whose selected_tool is a registered name.
NamesRegisteredTool ==
    /\ Answered
    /\ last.response.kind = "object"
    /\ last.response.tool # <<>>
    /\ \E i \in DOMAIN last.available_tools :
           last.available_tools[i].name = last.response.tool[1]

(***************************************************************************)
(* C35.  When the LLM response is a well-formed JSON object whose          *)
(* selected_tool names a registered tool, select_tool_and_generate_args    *)
(* returns exactly that tool name and exactly the arguments of the         *)
(* response, the empty mapping when the response has none: no fallback.    *)
(***************************************************************************)
C35_RegisteredSelectionReturned ==
    NamesRegisteredTool
        => /\ last.value.raised = "none"
           /\ last.value.tool = last.response.tool[1]
           /\ last.value.arguments =
                  (IF last.response.arguments = <<>> THEN [generated |-> "default"]
                   ELSE last.response.arguments[1])

\* The LLM named a registered tool other than email_draft and gave no arguments.
C35_Witness ==
    /\ NamesRegisteredTool
    /\ last.response.tool[1] # email_draft
    /\ last.response.arguments = <<>>
    /\ last.value.arguments = [generated |-> "default"]

(***************************************************************************)
(* C36.  On every fallback path of the selector the heuristically          *)
(* generated arguments are derived from the caller's input payload:        *)
(* original_email is extracted from the text of the payload, never from    *)
(* the text of the LLM's response.                                         *)
(***************************************************************************)
C36_FallbackArgumentsFromPayload ==
    (/\ Answered
     /\ last.value.raised = "none"
     /\ last.value.arguments.generated = "heuristic")
        => last.value.arguments = generate_fallback_arguments(last.input_data)

\* The entry of the configuration names a command.
NamesCommand(e) ==
    e.mapping /\ "command" \in DOMAIN e.fields /\ e.fields.command # ""

(***************************************************************************)
(* C37.  load registers every server entry of the configuration that       *)
(* names a command, entries whose args list is empty or absent included,   *)
(* and an entry that cannot be registered does not keep the entries after  *)
(* it from being registered: after a load of a readable configuration      *)
(* every entry of it that names a command is in the registry.              *)
(***************************************************************************)
C37_EveryCommandEntryRegistered ==
    (last.op \in {"load", "reload", "registry_reload"}
        /\ config_file.exists /\ config_file.parses)
        => \A i \in DOMAIN config_file.items :
               NamesCommand(config_file.items[i])
                   => Has(IF program = "mcp_manager" THEN mcp_servers ELSE servers,
                          config_file.items[i].name)

(***************************************************************************)
(* C38.  get_mcp_client returns the client of the named server when the    *)
(* name is registered, the client of the first server only when no name    *)
(* is given, and None when the given name is not registered or the         *)
(* registry is empty.                                                      *)
(***************************************************************************)
C38_ClientOfNamedServer ==
    last.op = "get_mcp_client"
        => LET server_name == last.text
           IN /\ (server_name # <<>> /\ Has(mcp_servers, server_name[1]))
                     => last.value = <<Lookup(mcp_servers, server_name[1]).client>>
              /\ (server_name = <<>> /\ mcp_servers # <<>>)
                     => last.value = <<mcp_servers[1].client>>
              /\ ((server_name # <<>> /\ ~Has(mcp_servers, server_name[1]))
                      \/ mcp_servers = <<>>)
                     => last.value = <<>>

(***************************************************************************)
(* C39.  The gateway's do-task forwards the outcome of the agent service   *)
(* faithfully: a status S other than 200 is answered with status S, a      *)
(* timeout of the agent with 504, a connection failure with 503, and only  *)
(* other errors with 500.                                                  *)
(***************************************************************************)
C39_StatusForwarded ==
    last.op = "do_task"
        => LET outcome == last.outcome
           IN /\ (outcome.kind = "response" /\ outcome.status # 200)
                     => last.value = outcome.status
              /\ outcome.kind \in {"ReadTimeout", "ConnectTimeout"} => last.value = 504
              /\ outcome.kind = "ConnectError" => last.value = 503
              /\ last.value = 500
                     => \/ outcome.kind = "ReadError"
                        \/ outcome.kind = "response" /\ outcome.status = 500
                        \/ outcome.kind = "response" /\ outcome.status = 200
                               /\ ~outcome.json

====
